---------------------------- MODULE Spec2Model ----------------------------
(***************************************************************************)
(* A model of the toy browser engine: the HTML parser (html.rs), the DOM   *)
(* (dom.rs), the style engine (style.rs) and the block layout engine       *)
(* (layout.rs).                                                            *)
(*                                                                         *)
(* Strings that the code inspects character by character (the parser's     *)
(* input, tag names, attribute names and values) are sequences of          *)
(* one-character strings.  CSS property names and keywords are only ever   *)
(* compared whole and are plain strings.  Pixel lengths (f32 in the code)  *)
(* are integers; the inputs are even, so the one division of the code,     *)
(* underflow / 2.0, is exact.                                              *)
(***************************************************************************)
EXTENDS Integers, Sequences, FiniteSets, TLC

VARIABLES
    \* style engine (style.rs)
    dom,            \* the DOM tree handed to style_tree
    stylesheet,     \* the stylesheet handed to style_tree
    styled,         \* the styled tree style_tree returned
    sstate,         \* "idle" | "ready" | "done"
    \* layout engine (layout.rs)
    styled_root,    \* the styled tree handed to build_layout_tree
    viewport,       \* the containing block handed to layout
    layout_root,    \* the root LayoutBox
    lstate,         \* "idle" | "ready" | "built" | "done" | "panic"
    \* HTML parser (html.rs)
    input,          \* Parser::input
    pos,            \* Parser::pos, a byte offset into input
    stack,          \* the calls in progress, the innermost last
    parsed,         \* the node parse returned
    pstate          \* "idle" | "running" | "done" | "panic"

style_vars == <<dom, stylesheet, styled, sstate>>
layout_vars == <<styled_root, viewport, layout_root, lstate>>
parse_vars == <<input, pos, stack, parsed, pstate>>
vars == <<style_vars, layout_vars, parse_vars>>

Nil == [nil |-> TRUE]

(***************************************************************************)
(* Bounds of the model.                                                    *)
(***************************************************************************)
MaxRules == 3          \* rules per stylesheet
MaxDomNodes == 3       \* nodes per DOM tree handed to the style engine
MaxBoxNodes == 4       \* nodes per styled tree that only sets display
MaxLayoutNodes == 3    \* nodes per styled tree that sets sizes and edges
MaxFragments == 4      \* fragments per input of the parser

(***************************************************************************)
(* Option<T>, HashMap<K, V>                                                *)
(***************************************************************************)
None == [some |-> FALSE, v |-> <<>>]
Some(x) == [some |-> TRUE, v |-> x]

EmptyMap == <<>>
MapGet(m, k) == IF k \in DOMAIN m THEN Some(m[k]) ELSE None
MapInsert(m, k, x) == [y \in (DOMAIN m) \cup {k} |-> IF y = k THEN x ELSE m[y]]

Range(s) == {s[i] : i \in 1..Len(s)}

(***************************************************************************)
(* css.rs is not part of the sources at hand; the stylesheet types and the *)
(* two functions the engine calls on them follow their description.        *)
(***************************************************************************)
Px == "Px"
Keyword(s) == [kind |-> "Keyword", s |-> s, n |-> 0]
Length(n, unit) == [kind |-> "Length", s |-> unit, n |-> n]

to_px(value) == IF value.kind = "Length" THEN value.n ELSE 0

SimpleSelector(tag_name, id, class) ==
    [tag_name |-> tag_name, id |-> id, class |-> class]
Declaration(name, value) == [name |-> name, value |-> value]
Rule(selectors, declarations) ==
    [selectors |-> selectors, declarations |-> declarations]

\* (id present?, number of classes, tag present?)
specificity(selector) ==
    << IF selector.id.some THEN 1 ELSE 0,
       Len(selector.class),
       IF selector.tag_name.some THEN 1 ELSE 0 >>

\* Ordering::Less of the lexicographic order on the triples
SpecificityLess(a, b) ==
    \/ a[1] < b[1]
    \/ a[1] = b[1] /\ a[2] < b[2]
    \/ a[1] = b[1] /\ a[2] = b[2] /\ a[3] < b[3]

(***************************************************************************)
(* dom.rs                                                                  *)
(***************************************************************************)
text(data) ==
    [node_type |-> "Text", data |-> data, tag_name |-> <<>>,
     attributes |-> EmptyMap, children |-> <<>>]

elem(tag_name, attrs, children) ==
    [node_type |-> "Element", data |-> <<>>, tag_name |-> tag_name,
     attributes |-> attrs, children |-> children]

ID == <<"i", "d">>
CLASS == <<"c", "l", "a", "s", "s">>

id(e) == MapGet(e.attributes, ID)

\* str::split(' '): the pieces between the separators, empty pieces kept
RECURSIVE split(_, _)
split(s, sep) ==
    IF \A i \in 1..Len(s) : s[i] # sep
    THEN <<s>>
    ELSE LET i == CHOOSE j \in 1..Len(s) :
                      s[j] = sep /\ \A k \in 1..(j - 1) : s[k] # sep
         IN  <<SubSeq(s, 1, i - 1)>> \o split(SubSeq(s, i + 1, Len(s)), sep)

classes(e) ==
    IF MapGet(e.attributes, CLASS).some
    THEN Range(split(e.attributes[CLASS], " "))
    ELSE {}

(***************************************************************************)
(* html.rs.  The characters of the model are ASCII, one byte each, so a    *)
(* byte offset counts characters.                                          *)
(***************************************************************************)
Whitespace == {" "}
NameChars == {"a", "b", "c", "d", "v", "w", "x"}
Alphabet == Whitespace \cup NameChars \cup {"<", ">", "/", "=", "'", "\""}

eof(p) == p >= Len(input)

\* the current character; the code panics on reading it at the end
next_char(p) == input[p + 1]

starts_with(p, s) ==
    /\ p + Len(s) <= Len(input)
    /\ SubSeq(input, p + 1, p + Len(s)) = s

\* the position after consume_while, from p, with a test true of the
\* characters of the set test; the string returned is
\* SubSeq(input, p + 1, consume_while(p, test))
\* consume_while that consumes no character
ConsumeNothing(p, test) == p

RECURSIVE consume_while(_, _)
consume_while(p, test) ==
    IF ~eof(p) /\ next_char(p) \in test
    THEN consume_while(p + 1, test)
    ELSE p

\* whitespace that is not skipped
NoWhitespaceSkip(p) == p

consume_whitespace(p) == consume_while(p, Whitespace)
parse_name(p) == consume_while(p, NameChars)

\* a call in progress; at is the place it has reached
Frame(fn, at, nodes, tag_name, attrs) ==
    [fn |-> fn, at |-> at, nodes |-> nodes, tag_name |-> tag_name,
     attrs |-> attrs]

Top == stack[Len(stack)]
Running == pstate = "running"

\* panic!, a failed assert! or unwrap(): the call of parse is aborted
Abort(p) ==
    /\ pstate' = "panic"
    /\ pos' = p
    /\ UNCHANGED <<stack, parsed, input, style_vars, layout_vars>>

\* parse_nodes: the loop ends at the end of the input or at "</", and the
\* nodes go back to the caller
ParseNodesBreak ==
    /\ Running /\ Top.fn = "parse_nodes"
    /\ LET p == consume_whitespace(pos)
       IN  /\ eof(p) \/ starts_with(p, <<"<", "/">>)
           /\ pos' = p
           /\ stack' = [SubSeq(stack, 1, Len(stack) - 1) EXCEPT
                           ![Len(stack) - 1].nodes = Top.nodes,
                           ![Len(stack) - 1].at = "return"]
    /\ UNCHANGED <<pstate, parsed, input, style_vars, layout_vars>>

\* parse_nodes, parse_node, parse_text: a text node up to the next '<'
ParseText ==
    /\ Running /\ Top.fn = "parse_nodes"
    /\ LET p == consume_whitespace(pos)
           q == consume_while(p, Alphabet \ {"<"})
       IN  /\ ~eof(p) /\ ~starts_with(p, <<"<", "/">>)
           /\ ~starts_with(p, <<"<">>)
           /\ pos' = q
           /\ stack' = [stack EXCEPT ![Len(stack)].nodes =
                           Append(@, text(SubSeq(input, p + 1, q)))]
    /\ UNCHANGED <<pstate, parsed, input, style_vars, layout_vars>>

\* parse_nodes, parse_node, parse_element: '<' and the tag name
ParseElementOpen ==
    /\ Running /\ Top.fn = "parse_nodes"
    /\ LET p == consume_whitespace(pos)
           q == parse_name(p + 1)
       IN  /\ ~eof(p) /\ ~starts_with(p, <<"<", "/">>)
           /\ starts_with(p, <<"<">>)
           /\ pos' = q
           /\ stack' = Append(stack,
                  Frame("parse_element", "attributes", <<>>,
                        SubSeq(input, p + 2, q), EmptyMap))
    /\ UNCHANGED <<pstate, parsed, input, style_vars, layout_vars>>

\* the position after parse_attr_value and whether it panicked, from p
parse_attr_value(p) ==
    IF eof(p) THEN [ok |-> FALSE, pos |-> p, value |-> <<>>]
    ELSE LET open_quote == next_char(p)
             q == consume_while(p + 1, Alphabet \ {open_quote})
         IN  IF open_quote \notin {"\"", "'"}
             THEN [ok |-> FALSE, pos |-> p + 1, value |-> <<>>]
             ELSE IF eof(q)
             THEN [ok |-> FALSE, pos |-> q, value |-> <<>>]
             ELSE [ok |-> next_char(q) = open_quote, pos |-> q + 1,
                   value |-> SubSeq(input, p + 2, q)]

\* parse_attributes: one turn of the loop that does not end it
ParseAttr ==
    /\ Running /\ Top.fn = "parse_element" /\ Top.at = "attributes"
    /\ LET p == consume_whitespace(pos)
           q == parse_name(p)
           v == parse_attr_value(q + 1)
       IN  IF eof(p) THEN Abort(p)
           ELSE /\ next_char(p) # ">"
                /\ IF ~starts_with(q, <<"=">>) THEN Abort(q)
                   ELSE IF ~v.ok THEN Abort(v.pos)
                   ELSE /\ pos' = v.pos
                        /\ stack' = [stack EXCEPT ![Len(stack)].attrs =
                               MapInsert(@, SubSeq(input, p + 1, q), v.value)]
                        /\ UNCHANGED <<pstate, parsed, input, style_vars,
                                       layout_vars>>

\* parse_attributes ends at '>'; parse_element consumes it and calls
\* parse_nodes for the contents
ParseAttributesEnd ==
    /\ Running /\ Top.fn = "parse_element" /\ Top.at = "attributes"
    /\ LET p == consume_whitespace(pos)
       IN  /\ ~eof(p) /\ next_char(p) = ">"
           /\ pos' = p + 1
           /\ stack' = Append([stack EXCEPT ![Len(stack)].at = "children"],
                              Frame("parse_nodes", "loop", <<>>, <<>>, EmptyMap))
    /\ UNCHANGED <<pstate, parsed, input, style_vars, layout_vars>>

\* parse_element: the closing tag, and the element goes to the parse_nodes
\* that called parse_node
ParseElementClose ==
    /\ Running /\ Top.fn = "parse_element" /\ Top.at = "return"
    /\ LET p == pos + 2
           q == p + Len(Top.tag_name)
       IN  IF ~starts_with(pos, <<"<", "/">>) THEN Abort(pos)
           ELSE IF ~starts_with(p, Top.tag_name) THEN Abort(p)
           ELSE IF ~starts_with(q, <<">">>) THEN Abort(q)
           ELSE /\ pos' = q + 1
                /\ stack' = [SubSeq(stack, 1, Len(stack) - 1) EXCEPT
                                ![Len(stack) - 1].nodes =
                                    Append(@, elem(Top.tag_name, Top.attrs,
                                                   Top.nodes))]
                /\ UNCHANGED <<pstate, parsed, input, style_vars,
                               layout_vars>>

HTML == <<"h", "t", "m", "l">>

\* parse that wraps the nodes in an html element whatever their number
ParseReturnWrapped ==
    /\ Running /\ Top.fn = "parse" /\ Top.at = "return"
    /\ parsed' = elem(HTML, EmptyMap, Top.nodes)
    /\ pstate' = "done"
    /\ UNCHANGED <<pos, stack, input, style_vars, layout_vars>>

\* parse: the one node, or an html element around the nodes
ParseReturn ==
    /\ Running /\ Top.fn = "parse" /\ Top.at = "return"
    /\ parsed' = IF Len(Top.nodes) = 1 THEN Top.nodes[1]
                 ELSE elem(HTML, EmptyMap, Top.nodes)
    /\ pstate' = "done"
    /\ UNCHANGED <<pos, stack, input, style_vars, layout_vars>>

(***************************************************************************)
(* style.rs                                                                *)
(***************************************************************************)
StyledNode(node, values, children) ==
    [node |-> node, specified_values |-> values, children |-> children]

value(sn, name) == MapGet(sn.specified_values, name)

lookup(sn, name, fallback_name, default) ==
    IF value(sn, name).some THEN value(sn, name).v
    ELSE IF value(sn, fallback_name).some THEN value(sn, fallback_name).v
    ELSE default

display(sn) ==
    LET d == value(sn, "display")
    IN  IF d.some /\ d.v.kind = "Keyword"
        THEN IF d.v.s = "block" THEN "Block"
             ELSE IF d.v.s = "none" THEN "None"
             ELSE "Inline"
        ELSE "Inline"

matches_simple_selector(e, selector) ==
    IF selector.tag_name.some /\ e.tag_name # selector.tag_name.v
    THEN FALSE
    ELSE IF selector.id.some /\ id(e) # Some(selector.id.v)
    THEN FALSE
    ELSE IF \E i \in 1..Len(selector.class) : selector.class[i] \in classes(e)
    THEN FALSE
    ELSE TRUE

matches(e, selector) == matches_simple_selector(e, selector)

\* Option<MatchedRule>: the specificity of the first matching selector
match_rule(e, rule) ==
    IF \E i \in 1..Len(rule.selectors) : matches(e, rule.selectors[i])
    THEN LET i == CHOOSE j \in 1..Len(rule.selectors) :
                      /\ matches(e, rule.selectors[j])
                      /\ \A k \in 1..(j - 1) : ~matches(e, rule.selectors[k])
         IN  Some(<<specificity(rule.selectors[i]), rule>>)
    ELSE None

RECURSIVE matching_rules_from(_, _, _)
matching_rules_from(e, rules, i) ==
    IF i > Len(rules) THEN <<>>
    ELSE LET m == match_rule(e, rules[i])
         IN  (IF m.some THEN <<m.v>> ELSE <<>>)
                 \o matching_rules_from(e, rules, i + 1)

matching_rules(e, sheet) == matching_rules_from(e, sheet, 1)

\* the sort without the comparison: the rules stay in source order
SourceOrder(rules) == rules

\* an unstable sort: a rule goes before the rules of equal specificity
RECURSIVE UnstableSort(_)
UnstableSort(rules) ==
    IF Len(rules) = 0 THEN <<>>
    ELSE LET sorted == UnstableSort(SubSeq(rules, 1, Len(rules) - 1))
             r == rules[Len(rules)]
             n == Cardinality({i \in 1..Len(sorted) :
                                  SpecificityLess(sorted[i][1], r[1])})
         IN  SubSeq(sorted, 1, n) \o <<r>> \o SubSeq(sorted, n + 1, Len(sorted))

\* rules.sort_by(|&(a, _), &(b, _)| a.cmp(&b)): ascending and stable
RECURSIVE sort_by_specificity(_)
sort_by_specificity(rules) ==
    IF Len(rules) = 0 THEN <<>>
    ELSE LET sorted == sort_by_specificity(SubSeq(rules, 1, Len(rules) - 1))
             r == rules[Len(rules)]
             n == Cardinality({i \in 1..Len(sorted) :
                                  ~SpecificityLess(r[1], sorted[i][1])})
         IN  SubSeq(sorted, 1, n) \o <<r>> \o SubSeq(sorted, n + 1, Len(sorted))

RECURSIVE insert_declarations(_, _, _)
insert_declarations(values, declarations, i) ==
    IF i > Len(declarations) THEN values
    ELSE insert_declarations(
             MapInsert(values, declarations[i].name, declarations[i].value),
             declarations, i + 1)

RECURSIVE insert_rules(_, _, _)
insert_rules(values, rules, i) ==
    IF i > Len(rules) THEN values
    ELSE insert_rules(insert_declarations(values, rules[i][2].declarations, 1),
                      rules, i + 1)

specified_values(e, sheet) ==
    insert_rules(EmptyMap, sort_by_specificity(matching_rules(e, sheet)), 1)

\* style_tree without the match on the node type
RECURSIVE StyleTreeNoTextCase(_, _)
StyleTreeNoTextCase(root, sheet) ==
    StyledNode(root,
               specified_values(root, sheet),
               [i \in 1..Len(root.children) |->
                    StyleTreeNoTextCase(root.children[i], sheet)])

RECURSIVE style_tree(_, _)
style_tree(root, sheet) ==
    StyledNode(root,
               IF root.node_type = "Text" THEN EmptyMap
               ELSE specified_values(root, sheet),
               [i \in 1..Len(root.children) |->
                    style_tree(root.children[i], sheet)])


(***************************************************************************)
(* layout.rs                                                               *)
(***************************************************************************)
Rect(x, y, width, height) == [x |-> x, y |-> y, width |-> width, height |-> height]
EdgeSizes(left, right, top, bottom) ==
    [left |-> left, right |-> right, top |-> top, bottom |-> bottom]

\* Default::default(): every field 0.0
DefaultDimensions ==
    [content |-> Rect(0, 0, 0, 0), padding |-> EdgeSizes(0, 0, 0, 0),
     border |-> EdgeSizes(0, 0, 0, 0), margin |-> EdgeSizes(0, 0, 0, 0)]

\* node is the styled node of a BlockNode or InlineNode; an AnonymousBlock
\* has none
LayoutBox_new(box_type, node) ==
    [dimensions |-> DefaultDimensions, box_type |-> box_type,
     node |-> node, children |-> <<>>]

AnonymousBlock == LayoutBox_new("AnonymousBlock", Nil)

get_style_node(self) == self.node

expanded_by(rect, edge) ==
    Rect(rect.x - edge.left, rect.y - edge.top,
         rect.width + edge.left + edge.right,
         rect.height + edge.top + edge.bottom)

padding_box(d) == expanded_by(d.content, d.padding)
border_box(d) == expanded_by(padding_box(d), d.border)
margin_box(d) == expanded_by(border_box(d), d.margin)

\* the sum without the last of the values
RECURSIVE SumButLast(_)
SumButLast(s) ==
    IF Len(s) <= 1 THEN 0 ELSE SumButLast(SubSeq(s, 1, Len(s) - 1)) + s[Len(s) - 1]

RECURSIVE sum(_)
sum(s) == IF Len(s) = 0 THEN 0 ELSE sum(SubSeq(s, 1, Len(s) - 1)) + s[Len(s)]

\* get_inline_container that never reuses the anonymous block before it
AlwaysNewContainer(self) ==
    IF self.box_type = "BlockNode"
    THEN [self EXCEPT !.children = Append(@, AnonymousBlock)]
    ELSE self

\* The box after get_inline_container; the container it returns is the box
\* itself (inline, anonymous) or its last child (block).
get_inline_container(self) ==
    IF self.box_type = "BlockNode"
    THEN IF /\ Len(self.children) > 0
            /\ self.children[Len(self.children)].box_type = "AnonymousBlock"
         THEN self
         ELSE [self EXCEPT !.children = Append(@, AnonymousBlock)]
    ELSE self

\* root.get_inline_container().children.push(child)
push_inline(root, child) ==
    LET r == get_inline_container(root)
    IN  IF r.box_type = "BlockNode"
        THEN [r EXCEPT !.children[Len(r.children)].children = Append(@, child)]
        ELSE [r EXCEPT !.children = Append(@, child)]

\* build_layout_tree; the root's display is Block or Inline (the function
\* panics on None, see BuildLayoutTree)
RECURSIVE build_layout_tree(_), build_children(_, _, _)
build_layout_tree(styled_node) ==
    build_children(
        LayoutBox_new(IF display(styled_node) = "Block" THEN "BlockNode"
                      ELSE "InlineNode", styled_node),
        styled_node.children, 1)

build_children(root, children, i) ==
    IF i > Len(children) THEN root
    ELSE LET child == children[i]
         IN  build_children(
                 CASE display(child) = "Block" ->
                          [root EXCEPT !.children =
                               Append(@, build_layout_tree(child))]
                   [] display(child) = "Inline" ->
                          push_inline(root, build_layout_tree(child))
                   [] OTHER -> root,
                 children, i + 1)

auto == Keyword("auto")

\* margins, borders and paddings that default to auto
DefaultAuto == Keyword("auto")

zero == Length(0, Px)

\* the overconstrained arm with the underflow assigned, not added
OverconstrainedAssign(margin_right, underflow) == Length(underflow, Px)

\* (false, false, false): the right margin absorbs the underflow
overconstrained(margin_right, underflow) ==
    Length(to_px(margin_right) + underflow, Px)

\* the width-auto arm with the underflow as the width whatever its sign
AutoWidthUnclamped(margin_left, margin_right, underflow) ==
    <<Length(underflow, Px),
      IF margin_left = auto THEN Length(0, Px) ELSE margin_left,
      IF margin_right = auto THEN Length(0, Px) ELSE margin_right>>

\* (true, _, _): <<width, margin_left, margin_right>> of a box of width auto
auto_width(margin_left, margin_right, underflow) ==
    LET ml == IF margin_left = auto THEN Length(0, Px) ELSE margin_left
        mr == IF margin_right = auto THEN Length(0, Px) ELSE margin_right
    IN  IF underflow >= 0
        THEN <<Length(underflow, Px), ml, mr>>
        ELSE <<Length(0, Px), ml, Length(to_px(mr) + underflow, Px)>>

calculate_block_width(self, containing_block) ==
    LET style == get_style_node(self)
        width0 == IF value(style, "width").some THEN value(style, "width").v
                  ELSE auto
        margin_left0 == lookup(style, "margin-left", "margin", zero)
        margin_right0 == lookup(style, "margin-right", "margin", zero)
        border_left == lookup(style, "border-left-width", "border-width", zero)
        border_right == lookup(style, "border-right-width", "border-width", zero)
        padding_left == lookup(style, "padding-left", "padding", zero)
        padding_right == lookup(style, "padding-right", "padding", zero)
        total == sum(<<to_px(margin_left0), to_px(margin_right0),
                       to_px(border_left), to_px(border_right),
                       to_px(padding_left), to_px(padding_right),
                       to_px(width0)>>)
        wide == width0 # auto /\ total > containing_block.content.width
        margin_left1 == IF wide /\ margin_left0 = auto THEN Length(0, Px)
                        ELSE margin_left0
        margin_right1 == IF wide /\ margin_right0 = auto THEN Length(0, Px)
                         ELSE margin_right0
        underflow == containing_block.content.width - total
        \* <<width, margin_left, margin_right>>
        r == CASE width0 # auto /\ margin_left1 # auto /\ margin_right1 # auto ->
                      <<width0, margin_left1,
                        overconstrained(margin_right1, underflow)>>
               [] width0 # auto /\ margin_left1 # auto /\ margin_right1 = auto ->
                      <<width0, margin_left1, Length(underflow, Px)>>
               [] width0 # auto /\ margin_left1 = auto /\ margin_right1 # auto ->
                      <<width0, Length(underflow, Px), margin_right1>>
               [] width0 = auto ->
                      auto_width(margin_left1, margin_right1, underflow)
               [] width0 # auto /\ margin_left1 = auto /\ margin_right1 = auto ->
                      <<width0, Length(underflow \div 2, Px),
                        Length(underflow \div 2, Px)>>
    IN  [self EXCEPT !.dimensions.content.width = to_px(r[1]),
                     !.dimensions.padding.left = to_px(padding_left),
                     !.dimensions.padding.right = to_px(padding_right),
                     !.dimensions.border.left = to_px(border_left),
                     !.dimensions.border.right = to_px(border_right),
                     !.dimensions.margin.left = to_px(r[2]),
                     !.dimensions.margin.right = to_px(r[3])]

\* the y of the content without the height of the containing block
PositionIgnoringHeight(containing_block, top) ==
    containing_block.content.y + top

\* content.y: below all the previous boxes in the container
content_y(containing_block, top) ==
    containing_block.content.height + containing_block.content.y + top

calculate_block_position(self, containing_block) ==
    LET style == get_style_node(self)
        d == self.dimensions
        margin_top == to_px(lookup(style, "margin-top", "margin", zero))
        margin_bottom == to_px(lookup(style, "margin-bottom", "margin", zero))
        border_top ==
            to_px(lookup(style, "border-top-width", "border-width", zero))
        border_bottom ==
            to_px(lookup(style, "border-bottom-width", "border-width", zero))
        padding_top == to_px(lookup(style, "padding-top", "padding", zero))
        padding_bottom == to_px(lookup(style, "padding-bottom", "padding", zero))
    IN  [self EXCEPT
            !.dimensions.margin.top = margin_top,
            !.dimensions.margin.bottom = margin_bottom,
            !.dimensions.border.top = border_top,
            !.dimensions.border.bottom = border_bottom,
            !.dimensions.padding.top = padding_top,
            !.dimensions.padding.bottom = padding_bottom,
            !.dimensions.content.x =
                containing_block.content.x + d.margin.left + d.border.left
                    + d.padding.left,
            !.dimensions.content.y =
                content_y(containing_block,
                          margin_top + border_top + padding_top)]

\* an explicit height that never shrinks the box below its children
HeightAtLeastChildren(self) ==
    LET h == value(get_style_node(self), "height")
    IN  IF h.some /\ h.v.kind = "Length" /\ h.v.s = Px
           /\ h.v.n > self.dimensions.content.height
        THEN [self EXCEPT !.dimensions.content.height = h.v.n]
        ELSE self

calculate_block_height(self) ==
    LET h == value(get_style_node(self), "height")
    IN  IF h.some /\ h.v.kind = "Length" /\ h.v.s = Px
        THEN [self EXCEPT !.dimensions.content.height = h.v.n]
        ELSE self

RECURSIVE layout(_, _), layout_block(_, _), layout_block_children(_, _)
layout(self, containing_block) ==
    IF self.box_type = "BlockNode" THEN layout_block(self, containing_block)
    ELSE self

layout_block(self, containing_block) ==
    calculate_block_height(
        layout_block_children(
            calculate_block_position(
                calculate_block_width(self, containing_block),
                containing_block),
            1))

\* the loop over the children, from child i on
layout_block_children(self, i) ==
    IF i > Len(self.children) THEN self
    ELSE LET child == layout(self.children[i], self.dimensions)
         IN  layout_block_children(
                 [self EXCEPT
                     !.children[i] = child,
                     !.dimensions.content.height =
                         @ + margin_box(child.dimensions).height],
                 i + 1)

(***************************************************************************)
(* Inputs of the style engine.                                             *)
(***************************************************************************)
DIV == <<"d", "i", "v">>
PTAG == <<"p">>
XID == <<"x">>
ZID == <<"z">>
YCLASS == <<"y">>
WCLASS == <<"w">>

Attrs(idopt, classopt) ==
    LET a == IF idopt.some THEN MapInsert(EmptyMap, ID, idopt.v) ELSE EmptyMap
    IN  IF classopt.some THEN MapInsert(a, CLASS, classopt.v) ELSE a

\* the class attributes: absent, "y", "y w" and the empty string
ClassAttrs == {None, Some(YCLASS), Some(<<"y", " ", "w">>), Some(<<>>)}

Elements ==
    {elem(t, Attrs(i, c), <<>>) :
        t \in {DIV, PTAG}, i \in {None, Some(XID)}, c \in ClassAttrs}

\* <div id="x" class="y">
DivXY == elem(DIV, Attrs(Some(XID), Some(YCLASS)), <<>>)

RuleTag == Rule(<<SimpleSelector(Some(DIV), None, <<>>)>>,
                <<Declaration("color", Keyword("red"))>>)
RuleClass == Rule(<<SimpleSelector(None, None, <<YCLASS>>)>>,
                  <<Declaration("color", Keyword("green"))>>)
RuleId == Rule(<<SimpleSelector(None, Some(XID), <<>>)>>,
               <<Declaration("color", Keyword("blue"))>>)
RuleTag2 == Rule(<<SimpleSelector(Some(DIV), None, <<>>)>>,
                 <<Declaration("color", Keyword("cyan")),
                   Declaration("margin", Length(10, Px))>>)
RuleWild == Rule(<<SimpleSelector(None, None, <<>>)>>,
                 <<Declaration("display", Keyword("block"))>>)
\* two selectors (the first matching one gives the specificity), and the
\* same property declared twice
RuleMulti == Rule(<<SimpleSelector(Some(PTAG), Some(ZID), <<>>),
                    SimpleSelector(None, None, <<WCLASS>>)>>,
                  <<Declaration("color", Keyword("pink")),
                    Declaration("width", Length(50, Px)),
                    Declaration("color", Keyword("gray"))>>)

RulePool == {RuleTag, RuleClass, RuleId, RuleTag2, RuleWild, RuleMulti}

Stylesheets == UNION {[1..n -> RulePool] : n \in 0..MaxRules}

Properties == {"color", "display", "margin", "width"}

\* the DOM trees of exactly n nodes over one element and one text label;
\* a Text node has no children
RECURSIVE DomTrees(_), DomForests(_)
DomTrees(n) ==
    IF n = 1
    THEN {DivXY, text(<<"h", "i">>)}
    ELSE {elem(DIV, Attrs(Some(XID), Some(YCLASS)), f) : f \in DomForests(n - 1)}

DomForests(m) ==
    IF m = 0 THEN {<<>>}
    ELSE UNION {{<<t>> \o f : t \in DomTrees(k), f \in DomForests(m - k)} :
                   k \in 1..m}

DomInputs == Elements \cup UNION {DomTrees(n) : n \in 1..MaxDomNodes}

(***************************************************************************)
(* The style stage: style_tree applied to a DOM tree and a stylesheet.     *)
(***************************************************************************)
StyleInit ==
    /\ dom \in DomInputs
    /\ stylesheet \in Stylesheets
    /\ styled = Nil
    /\ sstate = "ready"
    /\ styled_root = Nil /\ viewport = Nil /\ layout_root = Nil
    /\ lstate = "idle"
    /\ input = <<>> /\ pos = 0 /\ stack = <<>> /\ parsed = Nil
    /\ pstate = "idle"

StyleTree ==
    /\ sstate = "ready"
    /\ styled' = style_tree(dom, stylesheet)
    /\ sstate' = "done"
    /\ UNCHANGED <<dom, stylesheet, layout_vars, parse_vars>>

StyleNext == StyleTree

StyleSpec == StyleInit /\ [][StyleNext]_vars

(***************************************************************************)
(* Helpers of the properties of the style engine.                          *)
(***************************************************************************)
Declares(rule, p) ==
    \E i \in 1..Len(rule.declarations) : rule.declarations[i].name = p

\* the value of the last declaration of p in the rule
LastDeclared(rule, p) ==
    LET i == CHOOSE j \in 1..Len(rule.declarations) :
                 /\ rule.declarations[j].name = p
                 /\ \A k \in (j + 1)..Len(rule.declarations) :
                        rule.declarations[k].name # p
    IN  rule.declarations[i].value

\* the positions, in source order, of the matched rules that declare p
Declaring(m, p) == {i \in 1..Len(m) : Declares(m[i][2], p)}

\* those of them whose matched specificity no other one exceeds
Highest(m, p) ==
    {i \in Declaring(m, p) :
        \A j \in Declaring(m, p) : ~SpecificityLess(m[i][1], m[j][1])}

SetMax(S) == CHOOSE x \in S : \A y \in S : y <= x

StyledRoot == sstate = "done" /\ dom.node_type = "Element"

\* C1: what the selector is meant to match
IntendedMatch(e, selector) ==
    /\ selector.tag_name.some => selector.tag_name.v = e.tag_name
    /\ selector.id.some => id(e) = Some(selector.id.v)
    /\ \A i \in 1..Len(selector.class) : selector.class[i] \in classes(e)

\* C1: for every selector of the stylesheet, matches_simple_selector is true
\* of the styled element exactly when the tag name, the id and every class
\* of the selector are those of the element.
C1_SelectorMatching ==
    StyledRoot =>
        \A r \in Range(stylesheet) : \A s \in Range(r.selectors) :
            matches_simple_selector(dom, s) = IntendedMatch(dom, s)

\* C2: a property that matched rules declare has the value (of the last
\* declaration) of a matched rule whose specificity no other matched rule
\* declaring it exceeds, whatever the order of the rules; for
\* <div id="x" class="y"> and the three rules div, .y and #x in any order the
\* color is blue.
C2_CascadeBySpecificity ==
    StyledRoot =>
        LET m == matching_rules(dom, stylesheet)
        IN  /\ \A p \in Properties :
                   Declaring(m, p) # {} =>
                       /\ p \in DOMAIN styled.specified_values
                       /\ \E i \in Highest(m, p) :
                              styled.specified_values[p] = LastDeclared(m[i][2], p)
            /\ (dom = DivXY /\ Range(stylesheet) = {RuleTag, RuleClass, RuleId})
                   => styled.specified_values["color"] = Keyword("blue")

\* C2 witness: a rule of higher specificity comes before one of lower
\* specificity declaring the same property, and its value is the result.
C2_Witness ==
    /\ StyledRoot
    /\ LET m == matching_rules(dom, stylesheet)
       IN  \E i, j \in Declaring(m, "color") :
               /\ i < j
               /\ SpecificityLess(m[j][1], m[i][1])
               /\ LastDeclared(m[i][2], "color") # LastDeclared(m[j][2], "color")
               /\ styled.specified_values["color"] = LastDeclared(m[i][2], "color")

\* C3: among the matched rules of highest specificity that declare a
\* property, the one latest in the stylesheet gives the value, and within
\* that rule the last declaration of the property.
C3_CascadeStable ==
    StyledRoot =>
        LET m == matching_rules(dom, stylesheet)
        IN  \A p \in Properties :
                Declaring(m, p) # {} =>
                    /\ p \in DOMAIN styled.specified_values
                    /\ styled.specified_values[p]
                           = LastDeclared(m[SetMax(Highest(m, p))][2], p)

\* C3 witness: two matched rules of equal specificity declare color with
\* different values and the later one's value is the result.
C3_Witness ==
    /\ StyledRoot
    /\ LET m == matching_rules(dom, stylesheet)
       IN  \E i, j \in Highest(m, "color") :
               /\ i < j
               /\ m[i][1] = m[j][1]
               /\ LastDeclared(m[i][2], "color") # LastDeclared(m[j][2], "color")
               /\ styled.specified_values["color"] = LastDeclared(m[j][2], "color")

RECURSIVE Mirrors(_, _)
Mirrors(sn, n) ==
    /\ sn.node = n
    /\ n.node_type = "Text" => sn.specified_values = EmptyMap
    /\ Len(sn.children) = Len(n.children)
    /\ \A i \in 1..Len(n.children) : Mirrors(sn.children[i], n.children[i])

\* C4: every styled node of a Text node has an empty specified-values map,
\* and the styled tree has the shape and the child order of the DOM tree.
C4_TextNodesUnstyled == sstate = "done" => Mirrors(styled, dom)

\* C4 witness: a Text child styled under a stylesheet with the wildcard
\* selector, which gives its parent element a value.
C4_Witness ==
    /\ sstate = "done"
    /\ RuleWild \in Range(stylesheet)
    /\ \E i \in 1..Len(dom.children) :
           /\ dom.children[i].node_type = "Text"
           /\ styled.children[i].specified_values = EmptyMap
    /\ "display" \in DOMAIN styled.specified_values


(***************************************************************************)
(* Inputs of the layout engine: styled trees and containing blocks.        *)
(***************************************************************************)
OptProp(name, o) == IF o.some THEN name :> o.v ELSE EmptyMap

\* a styled node over an element whose children are those of the styled
\* children
Styled(values, children) ==
    StyledNode(elem(DIV, EmptyMap, [i \in 1..Len(children) |-> children[i].node]),
               values, children)

\* one block box: every combination of width, margins, padding and border
BoxStyles ==
    {("display" :> Keyword("block"))
        @@ OptProp("width", w) @@ OptProp("margin-left", ml)
        @@ OptProp("margin-right", mr) @@ OptProp("margin", m)
        @@ OptProp("padding", pd) @@ OptProp("border-width", bw) :
        w \in {None, Some(auto), Some(Length(50, Px)), Some(Length(120, Px))},
        ml \in {None, Some(auto), Some(Length(10, Px))},
        mr \in {None, Some(auto), Some(Length(10, Px))},
        m \in {None, Some(auto), Some(Length(4, Px))},
        pd \in {None, Some(Length(10, Px))},
        bw \in {None, Some(Length(2, Px))}}

StyleBlock == "display" :> Keyword("block")
StyleInline == "display" :> Keyword("inline")
StyleNone == "display" :> Keyword("none")
StyleBlock30 == StyleBlock @@ ("height" :> Length(30, Px))
StyleBlock40 == StyleBlock @@ ("height" :> Length(40, Px))
StyleEdges ==
    StyleBlock @@ ("height" :> auto) @@ ("margin" :> Length(4, Px))
        @@ ("margin-bottom" :> Length(8, Px)) @@ ("padding-top" :> Length(2, Px))
        @@ ("border-width" :> Length(6, Px))
StyleNarrow ==
    StyleBlock @@ ("height" :> Length(10, Px)) @@ ("width" :> Length(50, Px))
        @@ ("margin-left" :> auto) @@ ("margin-right" :> auto)

DisplayStyles == {StyleBlock, StyleInline, StyleNone}
StylePool == DisplayStyles \cup {StyleBlock30, StyleBlock40, StyleEdges, StyleNarrow}

\* the styled trees of exactly n nodes with styles of the pool
RECURSIVE StyledTrees(_, _), StyledForests(_, _)
StyledTrees(pool, n) ==
    {Styled(values, f) : values \in pool, f \in StyledForests(pool, n - 1)}

StyledForests(pool, m) ==
    IF m = 0 THEN {<<>>}
    ELSE UNION {{<<t>> \o f : t \in StyledTrees(pool, k),
                              f \in StyledForests(pool, m - k)} : k \in 1..m}

Viewport(x, y, width, height) ==
    [DefaultDimensions EXCEPT !.content = Rect(x, y, width, height)]

Viewports == {Viewport(0, 0, 100, 0), Viewport(0, 0, 200, 0), Viewport(2, 4, 10, 6)}

LayoutInputs ==
    ({Styled(values, <<>>) : values \in BoxStyles} \X Viewports)
        \cup ((UNION {StyledTrees(StylePool, n) : n \in 1..MaxLayoutNodes})
                 \X Viewports)
        \cup ((UNION {StyledTrees(DisplayStyles, n) : n \in 1..MaxBoxNodes})
                 \X {Viewport(0, 0, 100, 0)})

(***************************************************************************)
(* The layout stage: build_layout_tree, then layout on the root box.       *)
(***************************************************************************)
LayoutInit ==
    /\ \E pair \in LayoutInputs : styled_root = pair[1] /\ viewport = pair[2]
    /\ layout_root = Nil
    /\ lstate = "ready"
    /\ dom = Nil /\ stylesheet = Nil /\ styled = Nil
    /\ sstate = "idle"
    /\ input = <<>> /\ pos = 0 /\ stack = <<>> /\ parsed = Nil
    /\ pstate = "idle"

\* build_layout_tree panics when the root has display: none
BuildLayoutTree ==
    /\ lstate = "ready"
    /\ IF display(styled_root) = "None"
       THEN lstate' = "panic" /\ UNCHANGED layout_root
       ELSE lstate' = "built" /\ layout_root' = build_layout_tree(styled_root)
    /\ UNCHANGED <<styled_root, viewport, style_vars, parse_vars>>

Layout ==
    /\ lstate = "built"
    /\ layout_root' = layout(layout_root, viewport)
    /\ lstate' = "done"
    /\ UNCHANGED <<styled_root, viewport, style_vars, parse_vars>>

LayoutNext == BuildLayoutTree \/ Layout

LayoutSpec == LayoutInit /\ [][LayoutNext]_vars

(***************************************************************************)
(* Properties of the layout engine.                                        *)
(***************************************************************************)
LaidOut == lstate = "done"

\* scenario S1: a { display: block; width: 50px; } in a width of 100
S1Style == StyleBlock @@ ("width" :> Length(50, Px))
S1 == /\ LaidOut
      /\ styled_root = Styled(S1Style, <<>>)
      /\ viewport.content.width = 100

\* the same box with both horizontal margins set to auto
S1AutoStyle == S1Style @@ ("margin-left" :> auto) @@ ("margin-right" :> auto)
S1Auto == /\ LaidOut
          /\ styled_root = Styled(S1AutoStyle, <<>>)
          /\ viewport.content.width = 100

\* C5 as stated: the box of S1 gets content.width = 50 and margin.left =
\* margin.right = 25.
C5_CenteringAsStated ==
    S1 => /\ layout_root.dimensions.content.width = 50
          /\ layout_root.dimensions.margin.left = 25
          /\ layout_root.dimensions.margin.right = 25

\* C5 amended: the box of S1 gets content.width = 50, margin.left = 0 and
\* margin.right = 50 (margins that are not specified are the length 0, and
\* the overconstrained case applies); with margin-left and margin-right both
\* auto it gets content.width = 50 and margin.left = margin.right = 25.
C5_Centering ==
    /\ S1 => /\ layout_root.dimensions.content.width = 50
             /\ layout_root.dimensions.margin.left = 0
             /\ layout_root.dimensions.margin.right = 50
    /\ S1Auto => /\ layout_root.dimensions.content.width = 50
                 /\ layout_root.dimensions.margin.left = 25
                 /\ layout_root.dimensions.margin.right = 25

\* C5 witness: the box of S1 has been laid out.
C5_Witness == S1 /\ layout_root.dimensions.margin.right = 50

\* scenario S2: width 120px and both margins 10px in a width of 100
S2Style ==
    StyleBlock @@ ("width" :> Length(120, Px))
        @@ ("margin-left" :> Length(10, Px)) @@ ("margin-right" :> Length(10, Px))
S2 == /\ LaidOut
      /\ styled_root = Styled(S2Style, <<>>)
      /\ viewport.content.width = 100

\* C6 as stated: the box of S2 gets content.width = 120, margin.left = 10
\* and margin.right = -20.
C6_OverconstrainedAsStated ==
    S2 => /\ layout_root.dimensions.content.width = 120
          /\ layout_root.dimensions.margin.left = 10
          /\ layout_root.dimensions.margin.right = -20

\* C6 amended: the box of S2 gets content.width = 120, margin.left = 10 and
\* margin.right = 10 + (100 - 140) = -30.
C6_Overconstrained ==
    S2 => /\ layout_root.dimensions.content.width = 120
          /\ layout_root.dimensions.margin.left = 10
          /\ layout_root.dimensions.margin.right = -30

\* C6 witness: the box of S2 has been laid out.
C6_Witness == S2 /\ layout_root.dimensions.margin.right < 0

\* the sum of the margin-box heights of the children before child k
RECURSIVE ChildrenHeight(_, _)
ChildrenHeight(b, k) ==
    IF k <= 1 THEN 0
    ELSE ChildrenHeight(b, k - 1)
             + margin_box(b.children[k - 1].dimensions).height

AllChildrenHeight(b) == ChildrenHeight(b, Len(b.children) + 1)

\* the style gives the box a height that is a length in px
ExplicitHeight(b) ==
    /\ "height" \in DOMAIN b.node.specified_values
    /\ b.node.specified_values["height"].kind = "Length"

\* the block boxes of the tree, each as <<box, reached>>; reached says
\* whether layout gets to the box, which it does through block boxes only
RECURSIVE BlockBoxes(_, _)
BlockBoxes(b, reached) ==
    (IF b.box_type = "BlockNode" THEN {<<b, reached>>} ELSE {})
        \cup UNION {BlockBoxes(b.children[i], reached /\ b.box_type = "BlockNode") :
                       i \in 1..Len(b.children)}

EveryBlockBox(b, reached, P(_, _)) ==
    \A br \in BlockBoxes(b, reached) : P(br[1], br[2])

HeightAsStated(b, reached) ==
    /\ b.dimensions.content.height >= AllChildrenHeight(b)
    /\ ~ExplicitHeight(b) => b.dimensions.content.height = AllChildrenHeight(b)

\* C7 as stated: every block box is at least as high as the sum of the
\* margin-box heights of its children, also with an explicit height, and
\* exactly as high without one.
C7_HeightAsStated == LaidOut => EveryBlockBox(layout_root, TRUE, HeightAsStated)

HeightAmended(b, reached) ==
    /\ ~ExplicitHeight(b) => b.dimensions.content.height = AllChildrenHeight(b)
    /\ ExplicitHeight(b) =>
           b.dimensions.content.height
               = IF reached THEN b.node.specified_values["height"].n ELSE 0

\* C7 amended: a block box without an explicit height is exactly as high as
\* the sum of the margin-box heights of its children; one with the explicit
\* height h has content.height = h, also when h is less than that sum (and 0
\* when it lies in an inline or anonymous box, which layout does not enter).
C7_Height == LaidOut => EveryBlockBox(layout_root, TRUE, HeightAmended)

\* C7 witness: a block box with an explicit height below the sum of the
\* margin-box heights of its children.
C7_Witness ==
    /\ LaidOut
    /\ layout_root.box_type = "BlockNode"
    /\ ExplicitHeight(layout_root)
    /\ layout_root.dimensions.content.height < AllChildrenHeight(layout_root)

Stacked(b, reached) ==
    reached =>
        \A k \in 1..Len(b.children) :
            LET c == b.children[k]
            IN  c.box_type = "BlockNode" =>
                    c.dimensions.content.y
                        = b.dimensions.content.y + ChildrenHeight(b, k)
                              + c.dimensions.margin.top + c.dimensions.border.top
                              + c.dimensions.padding.top

\* scenario S4: a { display: block } holding b { height: 30px } and
\* c { height: 40px }, both display: block, in a containing block at y = 0
\* whose content.height is 0
S4 == /\ LaidOut
      /\ styled_root = Styled(StyleBlock, <<Styled(StyleBlock30, <<>>),
                                            Styled(StyleBlock40, <<>>)>>)
      /\ viewport.content.y = 0
      /\ viewport.content.height = 0

\* C8: in every block box that is laid out, the content.y of the k-th child,
\* a block, is the content.y of the box plus the margin-box heights of the
\* children before it plus its own top margin, border and padding; in S4,
\* a.content.height = 70, b.content.y = 0 and c.content.y = 30.
C8_SiblingStacking ==
    /\ LaidOut => EveryBlockBox(layout_root, TRUE, Stacked)
    /\ S4 => /\ layout_root.dimensions.content.height = 70
             /\ layout_root.children[1].dimensions.content.y = 0
             /\ layout_root.children[2].dimensions.content.y = 30

\* C8 witness: S4 is laid out, and the second child lies below the first.
C8_Witness == S4 /\ layout_root.children[2].dimensions.content.y = 30

\* the styled children that get a box: those whose display is not none
RECURSIVE Visible(_)
Visible(children) ==
    IF Len(children) = 0 THEN <<>>
    ELSE Visible(SubSeq(children, 1, Len(children) - 1))
             \o (IF display(children[Len(children)]) = "None" THEN <<>>
                 ELSE <<children[Len(children)]>>)

\* the styled nodes of a sequence of boxes, an anonymous block standing for
\* the sequence of its children
RECURSIVE FlatNodes(_)
FlatNodes(boxes) ==
    IF Len(boxes) = 0 THEN <<>>
    ELSE LET b == boxes[Len(boxes)]
         IN  FlatNodes(SubSeq(boxes, 1, Len(boxes) - 1))
                 \o (IF b.box_type = "AnonymousBlock"
                     THEN [i \in 1..Len(b.children) |-> b.children[i].node]
                     ELSE <<b.node>>)

BoxTypeOf(styled_node) ==
    IF display(styled_node) = "Block" THEN "BlockNode" ELSE "InlineNode"

\* the structure of the tree under a box that is not anonymous
RECURSIVE Grouped(_)
Grouped(b) ==
    /\ b.box_type # "AnonymousBlock"
    /\ FlatNodes(b.children) = Visible(b.node.children)
    /\ \A i \in 1..Len(b.children) :
           LET c == b.children[i]
           IN  IF c.box_type = "AnonymousBlock"
               THEN /\ b.box_type = "BlockNode"
                    /\ i > 1 => b.children[i - 1].box_type # "AnonymousBlock"
                    /\ Len(c.children) > 0
                    /\ \A j \in 1..Len(c.children) :
                           /\ c.children[j].box_type = "InlineNode"
                           /\ display(c.children[j].node) = "Inline"
                           /\ Grouped(c.children[j])
               ELSE /\ c.box_type = BoxTypeOf(c.node)
                    /\ b.box_type = "BlockNode" => c.box_type = "BlockNode"
                    /\ Grouped(c)

\* C9: in the tree build_layout_tree returns, an AnonymousBlock is a child of
\* a block box only, no two of them are adjacent, the children of a block
\* box are block boxes and anonymous blocks that hold, in order, the inline
\* children between two block children (children with display none left
\* out), and an inline box holds the boxes of its children directly.
C9_AnonymousBlocks == lstate \in {"built", "done"} => Grouped(layout_root)

\* C9 witness: scenario S5, a block with three inline children, has one
\* child, an AnonymousBlock holding the three inline boxes.
C9_Witness ==
    /\ lstate = "built"
    /\ styled_root = Styled(StyleBlock, <<Styled(StyleInline, <<>>),
                                          Styled(StyleInline, <<>>),
                                          Styled(StyleInline, <<>>)>>)
    /\ Len(layout_root.children) = 1
    /\ layout_root.children[1].box_type = "AnonymousBlock"
    /\ Len(layout_root.children[1].children) = 3

(***************************************************************************)
(* The parsing stage: parse applied to a source string.                    *)
(***************************************************************************)
Fragments ==
    { <<"<", "a", ">">>, <<"<", "/", "a", ">">>, <<"<", "/", "b", ">">>,
      <<"<", "b", ">">>, <<"x">>, <<" ">>, <<"<", "a">>, <<">">>,
      <<" ", "c", "=", "'", "v", "'">>, <<"d", "=", "\"", "w", "'">> }

RECURSIVE Concat(_)
Concat(fs) == IF Len(fs) = 0 THEN <<>> ELSE fs[1] \o Concat(Tail(fs))

Sources == {Concat(fs) : fs \in UNION {[1..n -> Fragments] : n \in 0..MaxFragments}}

ParseInit ==
    /\ input \in Sources
    /\ pos = 0
    /\ stack = <<Frame("parse", "call", <<>>, <<>>, EmptyMap),
                 Frame("parse_nodes", "loop", <<>>, <<>>, EmptyMap)>>
    /\ parsed = Nil
    /\ pstate = "running"
    /\ dom = Nil /\ stylesheet = Nil /\ styled = Nil
    /\ sstate = "idle"
    /\ styled_root = Nil /\ viewport = Nil /\ layout_root = Nil
    /\ lstate = "idle"

ParseNext ==
    \/ ParseNodesBreak
    \/ ParseText
    \/ ParseElementOpen
    \/ ParseAttr
    \/ ParseAttributesEnd
    \/ ParseElementClose
    \/ ParseReturn

ParseSpec == ParseInit /\ [][ParseNext]_vars

\* parse runs to its end without being suspended: a call that can take a
\* step takes it
ParseLiveSpec == ParseSpec /\ WF_vars(ParseNext)

(***************************************************************************)
(* The three stages; which one runs is fixed by the initial state.         *)
(***************************************************************************)
Init == StyleInit \/ LayoutInit \/ ParseInit
Next == StyleNext \/ LayoutNext \/ ParseNext
Spec == Init /\ [][Next]_vars

(***************************************************************************)
(* Properties of the parser.                                               *)
(***************************************************************************)
\* C10: parse either aborts or returns a tree after consuming the entire
\* input.
C10_RejectedWhole == pstate = "done" => pos = Len(input)


\* parse returns with input left over only in front of an end tag
ParseStopsOnlyAtEndTag ==
    (pstate = "done" /\ pos # Len(input)) => starts_with(pos, <<"<", "/">>)


Returned == pstate = "done"

\* the tag name t of an input that starts with "<t>"
OpenTag == SubSeq(input, 2, parse_name(1))

\* the characters between "<t>" and the last "</t>" of the input
Content == SubSeq(input, Len(OpenTag) + 3, Len(input) - Len(OpenTag) - 3)

\* the input is "<t>X</t>" with a tag name t and a non-empty X without '<'
Balanced ==
    /\ Len(OpenTag) > 0
    /\ Len(input) > 2 * Len(OpenTag) + 5
    /\ input = <<"<">> \o OpenTag \o <<">">> \o Content
                   \o <<"<", "/">> \o OpenTag \o <<">">>
    /\ \A i \in 1..Len(Content) : Content[i] # "<"

\* s without the whitespace in front of it
RECURSIVE TrimStart(_)
TrimStart(s) ==
    IF Len(s) > 0 /\ Head(s) \in Whitespace THEN TrimStart(Tail(s)) ELSE s

\* C11 as stated: parse("<t>X</t>") returns an Element with tag t, no
\* attributes and one child, a Text node whose data is exactly X, also for
\* an X that starts with or consists of whitespace.
C11_VerbatimAsStated ==
    Balanced => /\ pstate # "panic"
                /\ Returned => parsed = elem(OpenTag, EmptyMap, <<text(Content)>>)

\* C11 amended: parse("<t>X</t>") never aborts and returns an Element with
\* tag t and no attributes; its one child is a Text node whose data is X
\* without its leading whitespace (the rest of X is verbatim, so the data is
\* exactly X when X does not start with whitespace), and it has no child at
\* all when X consists of whitespace.
C11_Verbatim ==
    Balanced =>
        /\ pstate # "panic"
        /\ Returned =>
              parsed = elem(OpenTag, EmptyMap,
                            IF TrimStart(Content) = <<>> THEN <<>>
                            ELSE <<text(TrimStart(Content))>>)

\* C11 witness: parse has returned for "<t> x</t>", an X with whitespace
\* in front of its text.
C11_Witness ==
    /\ Returned /\ Balanced
    /\ Content = <<" ", "x">>
    /\ parsed.children = <<text(<<"x">>)>>


\* the nodes that the top-level parse_nodes returned to parse
TopLevelNodes == stack[1].nodes

\* C12: when parse returns, a top-level sequence of exactly one node is
\* returned as that node itself, not wrapped, and a sequence of zero or of
\* two or more nodes is returned as an Element with tag "html", no attributes
\* and exactly those nodes as children in source order; so "<a></a>" gives
\* the element a, "" gives an empty html element and "<a></a>x" gives an
\* html element around the element a and the text x.
C12_RootFabrication ==
    Returned =>
        /\ Len(TopLevelNodes) = 1 => parsed = TopLevelNodes[1]
        /\ Len(TopLevelNodes) # 1 =>
              /\ parsed.node_type = "Element"
              /\ parsed.tag_name = HTML
              /\ parsed.attributes = EmptyMap
              /\ parsed.children = TopLevelNodes
        /\ input = <<"<", "a", ">", "<", "/", "a", ">">> =>
              parsed = elem(<<"a">>, EmptyMap, <<>>)
        /\ input = <<>> => parsed = elem(HTML, EmptyMap, <<>>)
        /\ input = <<"<", "a", ">", "<", "/", "a", ">", "x">> =>
              parsed = elem(HTML, EmptyMap,
                            <<elem(<<"a">>, EmptyMap, <<>>), text(<<"x">>)>>)

\* C12 witness: parse has returned the one top-level element of
\* "<a>x</a>" with its own tag and child.
C12_Witness ==
    /\ Returned
    /\ Len(TopLevelNodes) = 1
    /\ parsed = elem(<<"a">>, EmptyMap, <<text(<<"x">>)>>)

(***************************************************************************)
(* Properties of calculate_block_width.                                    *)
(***************************************************************************)
\* the block boxes that layout reaches, each as <<box, cw>> with cw the
\* content width of the containing block it was laid out in
RECURSIVE ReachedBlocks(_, _)
ReachedBlocks(b, cw) ==
    IF b.box_type # "BlockNode" THEN {}
    ELSE {<<b, cw>>}
             \cup UNION {ReachedBlocks(b.children[i], b.dimensions.content.width) :
                            i \in 1..Len(b.children)}

\* the specified pixels of an edge, 0 for auto and for an absent property
Specified(b, name, fallback_name) ==
    LET v == lookup(get_style_node(b), name, fallback_name, zero)
    IN  IF v.kind = "Length" THEN v.n ELSE 0

SpecifiedEdges(b) ==
    Specified(b, "margin-left", "margin") + Specified(b, "margin-right", "margin")
        + Specified(b, "border-left-width", "border-width")
        + Specified(b, "border-right-width", "border-width")
        + Specified(b, "padding-left", "padding")
        + Specified(b, "padding-right", "padding")

WidthAuto(b) ==
    LET w == value(get_style_node(b), "width") IN ~w.some \/ w.v = auto

AutoWidthResolved(b, cw) ==
    LET underflow == cw - SpecifiedEdges(b)
        d == b.dimensions
    IN  /\ d.margin.left = Specified(b, "margin-left", "margin")
        /\ IF underflow >= 0
           THEN /\ d.content.width = underflow
                /\ d.margin.right = Specified(b, "margin-right", "margin")
           ELSE /\ d.content.width = 0
                /\ d.margin.right =
                       Specified(b, "margin-right", "margin") + underflow
        /\ d.content.width >= 0

\* C13: every laid-out block box whose width is absent or auto has its auto
\* margins at 0 and, with underflow = containing width minus its margins,
\* borders and paddings, has content width underflow and its margins
\* unchanged when underflow >= 0, and content width 0 and margin.right = the
\* specified right margin plus underflow otherwise; its content width is
\* never negative.
C13_AutoWidth ==
    LaidOut =>
        \A bc \in ReachedBlocks(layout_root, viewport.content.width) :
            WidthAuto(bc[1]) => AutoWidthResolved(bc[1], bc[2])

\* C13 witness: a box of width auto with an auto right margin has been laid
\* out in a containing block narrower than its edges.
C13_Witness ==
    /\ LaidOut
    /\ WidthAuto(layout_root)
    /\ value(get_style_node(layout_root), "margin-right") = Some(auto)
    /\ viewport.content.width < SpecifiedEdges(layout_root)
    /\ layout_root.dimensions.content.width = 0
    /\ layout_root.dimensions.margin.right < 0

HorizontalSum(d) ==
    d.margin.left + d.border.left + d.padding.left + d.content.width
        + d.padding.right + d.border.right + d.margin.right

\* C14: for every laid-out block box, margin.left + border.left +
\* padding.left + content.width + padding.right + border.right +
\* margin.right equals the content width of its containing block.
C14_HorizontalConstraint ==
    LaidOut =>
        \A bc \in ReachedBlocks(layout_root, viewport.content.width) :
            HorizontalSum(bc[1].dimensions) = bc[2]

\* C14 witness: a box with a length width, an auto left margin and a length
\* right margin has been laid out, and its left margin took the underflow.
C14_Witness ==
    /\ LaidOut
    /\ value(get_style_node(layout_root), "width") = Some(Length(50, Px))
    /\ value(get_style_node(layout_root), "margin-left") = Some(auto)
    /\ value(get_style_node(layout_root), "margin-right") = Some(Length(10, Px))
    /\ viewport.content.width = 200
    /\ layout_root.dimensions.margin.left
           = 140 - 2 * layout_root.dimensions.padding.left
                 - 2 * layout_root.dimensions.border.left
    /\ layout_root.dimensions.margin.left > 0

(***************************************************************************)
(* Progress of the parser.                                                 *)
(***************************************************************************)
\* one turn of the loop of parse_nodes or of parse_attributes that does not
\* leave the loop
LoopIteration == ParseText \/ ParseElementOpen \/ ParseAttr

Terminated == pstate \in {"done", "panic"}

\* C15: pos never decreases and never exceeds the length of the input,
\* every iteration of the loops of parse_nodes and parse_attributes advances
\* pos by at least one or aborts, and parse terminates, by returning a tree
\* or by a fatal failure.
C15_ParserProgress ==
    /\ [](pos <= Len(input))
    /\ [][pos' >= pos]_vars
    /\ [][LoopIteration => (pos' > pos \/ pstate' = "panic")]_vars
    /\ <>Terminated

\* C15 witness: parse has returned at the end of "<a c='v'></a>", after one
\* turn of the loop of parse_attributes and one of the loop of parse_nodes.
C15_Witness ==
    /\ Returned
    /\ parsed = elem(<<"a">>, <<"c">> :> <<"v">>, <<>>)
    /\ pos = Len(input)
    /\ pos > 0

=============================================================================
